---------------------------- MODULE Spec2Model ----------------------------
(***************************************************************************)
(* A model of src/sem.c: POSIX semaphores on top of Win32 semaphore        *)
(* objects.  The state is the C memory the functions touch (the caller's   *)
(* sem_t variables, the calloc'ed arch_sem_t blocks), the kernel's handle  *)
(* table and semaphore objects, and each thread's position in a call.      *)
(*                                                                         *)
(* Pointers are integers: NULL is 0, a heap block b is the integer b in    *)
(* Blocks, and the address of the caller's sem_t variable s is             *)
(* SlotBase + s.  A HANDLE is an integer too: 0 is the NULL handle,        *)
(* 1..MaxHandles are the table's entries, Bogus is any bit pattern that is *)
(* no entry of the table (a heap address read as a HANDLE).                *)
(***************************************************************************)
EXTENDS Integers, Sequences, FiniteSets, TLC

VARIABLES
    slot,   \* the caller's sem_t variables: each holds a pointer
    heap,   \* the arch_sem_t blocks: allocated or free, and the handle field
    htab,   \* the kernel handle table of the process
    obj,    \* the kernel semaphore objects
    pc,     \* per thread: idle, blocked in a native wait, or inside sem_open
    last,   \* the call the latest step completed and what it returned
    trail,  \* observer: the calls made through the latest created handle
    tally,  \* observer: successful posts and waits counted so far
    script  \* observer: how many calls each thread of a scenario has begun

vars == <<slot, heap, htab, obj, pc, last, trail, tally, script>>

----------------------------------------------------------------------------
(* Bounds of the model. *)

\* Stand-in for SEM_VALUE_MAX of <semaphore.h>, scaled down.
SEM_VALUE_MAX == 3
\* Number of arch_sem_t blocks the allocator can hand out at one time.
MaxBlocks == 2
\* Number of entries of the handle table.
MaxHandles == 2
\* Number of threads that wait in the concurrent scenarios; one more posts.
MaxWaiters == 3
\* Successful posts counted in the concurrent scenarios.
MaxPosts == 2
\* Calls recorded after a creation.
MaxTrail == 3
\* Calls the thread of the named-semaphore scenario makes.
MaxCalls == 4
\* Longest name passed to sem_open when every length is tried.
MaxNameLen == 520
\* Stand-in for INT_MAX, scaled down: int is narrower than size_t and wider
\* than sizeof(buffer).
INT_MAX == 1023

\* sizeof(buffer) in sem_open.
BUFSZ == 512

NULL == 0
Bogus == -1
SlotBase == 10

Blocks == 1..MaxBlocks
Handles == 1..MaxHandles
Objs == 1..MaxHandles
Threads == 1..(MaxWaiters + 1)
Slots == {1}
SlotAddrs == {SlotBase + s : s \in Slots}
Pointers == {NULL} \cup SlotAddrs \cup Blocks

\* Values a caller passes as `value`: the ends of the range, one inside it
\* and one above it.
Values == {0, 1, SEM_VALUE_MAX, SEM_VALUE_MAX + 1}

PTHREAD_PROCESS_PRIVATE == 0
PTHREAD_PROCESS_SHARED == 1

\* A name is represented by its length; one string per length.
Names == {0, 1, BUFSZ - 7}
strlen(name) == name
NoName == 0

\* Conversion of a size_t to int: the value modulo 2 * (INT_MAX + 1), taken
\* in INT_MIN..INT_MAX.
ToInt(n) == ((n + INT_MAX + 1) % (2 * (INT_MAX + 1))) - (INT_MAX + 1)

OFlags == SUBSET {"O_CREAT", "O_EXCL"}

\* Absolute deadlines and the clock reading of a sem_timedwait call.
Now == 1
Deadlines == {0, 2}

----------------------------------------------------------------------------
(* Records. *)

ClosedEntry == [obj |-> 0, acc |-> "none"]
DeadObj == [live |-> FALSE, name |-> NoName, count |-> 0]
FreeBlock == [alloc |-> FALSE, handle |-> NULL]
Idle == [at |-> "idle", op |-> "none", sem |-> NULL, o |-> 0, arg |-> 0,
         name |-> NoName, flg |-> {}, bad |-> {}]

\* What a completed call leaves behind: ret is the int result, or for
\* sem_open the returned pointer; err is the errno set_errno recorded.
\* sem is the pointer argument, arg the value or deadline argument, name
\* the name argument, flg the flags, bad the memory errors the call
\* committed, out the pointer the call produced, made whether the call
\* created a native object.
Call(op, t, sem, ret, err, arg, name, flg, bad, out) ==
    [op |-> op, thr |-> t, sem |-> sem, ret |-> ret, err |-> err,
     arg |-> arg, name |-> name, flg |-> flg, bad |-> bad, out |-> out,
     made |-> FALSE]

Made(rec) == [rec EXCEPT !.made = TRUE]

NoCall == Call("none", 0, NULL, 0, "none", 0, NoName, {}, {}, NULL)

NoTally == [init |-> 0, posts |-> 0, waits |-> 0]
NoScript == [calls |-> 0, ok |-> 0]

\* set_errno(code) records the code and returns -1.
set_errno == -1

\* The call returned its failure value: NULL for sem_open, -1 otherwise.
Failed(rec) ==
    /\ rec.op # "none"
    /\ rec.ret = IF rec.op = "open" THEN NULL ELSE set_errno

Init ==
    /\ slot = [s \in Slots |-> NULL]
    /\ heap = [b \in Blocks |-> FreeBlock]
    /\ htab = [h \in Handles |-> ClosedEntry]
    /\ obj = [o \in Objs |-> DeadObj]
    /\ pc = [t \in Threads |-> Idle]
    /\ last = NoCall
    /\ trail = <<>>
    /\ tally = NoTally
    /\ script = [t \in Threads |-> NoScript]

----------------------------------------------------------------------------
(* C memory. *)

FreeBlocks == {b \in Blocks : ~heap[b].alloc}

\* calloc hands out the lowest free block (the blocks are interchangeable).
calloc == CHOOSE b \in FreeBlocks : \A c \in FreeBlocks : b <= c

\* A pointer value read as a HANDLE: NULL stays NULL, a heap address is no
\* entry of the handle table.
AsHandle(p) == IF p = NULL THEN NULL ELSE Bogus

\* pv->handle with pv = (arch_sem_t *) sem: the word at address sem.  At
\* the address of a sem_t variable that word is the pointer stored there;
\* in a live block it is the handle field; in a freed block it is
\* indeterminate and the read is a use after free.  The result is the set
\* of <<handle, memory errors>> the read can produce.
ReadHandle(sem) ==
    IF sem \in SlotAddrs THEN {<<AsHandle(slot[sem - SlotBase]), {}>>}
    ELSE IF heap[sem].alloc THEN {<<heap[sem].handle, {}>>}
    ELSE {<<h, {"uaf_read"}>> : h \in {NULL} \cup Handles}

----------------------------------------------------------------------------
(* The native layer: Win32 semaphore objects and handles. *)

FreeHandles == {h \in Handles : htab[h].obj = 0}
FreeObjs == {o \in Objs : ~obj[o].live}
\* The kernel hands out the lowest free handle value and object.
NewHandle == CHOOSE h \in FreeHandles : \A g \in FreeHandles : h <= g
NewObjId == CHOOSE o \in FreeObjs : \A x \in FreeObjs : o <= x
ValidH(h) == h \in Handles /\ htab[h].obj # 0
ObjOf(h) == htab[h].obj
Named(name) == {o \in Objs : obj[o].live /\ obj[o].name = name}
CountOf(h) == obj[ObjOf(h)].count

NewObj(name, value) ==
    [live |-> TRUE, name |-> name, count |-> value]

\* CloseHandle(h) succeeds on an open handle; the object goes away with its
\* last handle.
LastRef(h) == \A g \in Handles \ {h} : htab[g].obj # htab[h].obj
HtabClose(h) == [htab EXCEPT ![h] = ClosedEntry]
\* A kernel that keeps an object whose last handle was closed.
ObjClose_keeps(h) == obj

ObjClose(h) == IF LastRef(h) THEN [obj EXCEPT ![ObjOf(h)] = DeadObj] ELSE obj
\* A thread blocked on an object whose last handle is closed stays blocked:
\* nothing can signal that object any more.
PcClose(h, p) ==
    IF LastRef(h)
    THEN [t \in Threads |->
            IF p[t].at = "blocked" /\ p[t].o = ObjOf(h)
            THEN [p[t] EXCEPT !.o = 0] ELSE p[t]]
    ELSE p

\* ReleaseSemaphore(h, 1, NULL) needs SEMAPHORE_MODIFY_STATE access and
\* fails when the count is at the object's maximum.
CanRelease(h) ==
    /\ ValidH(h)
    /\ htab[h].acc \in {"all", "modify"}
    /\ CountOf(h) < SEM_VALUE_MAX

\* WaitForSingleObject(h, ms) needs SYNCHRONIZE access, which
\* SEMAPHORE_ALL_ACCESS holds and SEMAPHORE_MODIFY_STATE does not.
CanWait(h) == ValidH(h) /\ htab[h].acc = "all"

\* The result of a wait that does not block (ms = 0).
WaitPoll(h) ==
    IF ~CanWait(h) THEN "WAIT_FAILED"
    ELSE IF CountOf(h) > 0 THEN "WAIT_OBJECT_0"
    ELSE "WAIT_TIMEOUT"

ObjPost(o) == [obj EXCEPT ![o].count = @ + 1]
ObjTake(o) == [obj EXCEPT ![o].count = @ - 1]

\* arch_rel_time_in_ms: the time left until an absolute deadline, 0 when
\* the deadline has passed.
arch_rel_time_in_ms(abs_timeout) ==
    IF abs_timeout > Now THEN abs_timeout - Now ELSE 0

----------------------------------------------------------------------------
(* Completion of a call. *)

\* last is what the latest step returned; NoCall when that step began a call
\* and did not finish it.
Return(rec) == last' = rec

Pending == last' = NoCall

----------------------------------------------------------------------------
(* What the environment does to a call: calloc, the native open and the    *)
(* native creation may each fail whatever the state is.                    *)

InitEnv == {"ok", "nomem", "nohandle"}
OpenEnv == {"ok", "nomem", "denied"}
CreateEnv == {"ok", "nohandle"}

----------------------------------------------------------------------------
(* sem_init *)

init_argcheck_shared_first(sem, pshared, value) ==
    IF pshared # PTHREAD_PROCESS_PRIVATE THEN "EPERM"
    ELSE IF sem = NULL \/ value > SEM_VALUE_MAX THEN "EINVAL"
    ELSE "ok"

init_argcheck(sem, pshared, value) ==
    IF sem = NULL \/ value > SEM_VALUE_MAX THEN "EINVAL"
    ELSE IF pshared # PTHREAD_PROCESS_PRIVATE THEN "EPERM"
    ELSE "ok"

PsharedFlag(pshared) ==
    IF pshared = PTHREAD_PROCESS_PRIVATE THEN {} ELSE {"pshared"}

sem_init(t, sem, pshared, value) ==
    /\ pc[t].at = "idle"
    /\ LET chk == init_argcheck(sem, pshared, value)
           Fail(e) ==
               /\ Return(Call("init", t, sem, set_errno, e, value, NoName,
                              PsharedFlag(pshared), {}, NULL))
               /\ UNCHANGED <<slot, heap, htab, obj, pc>>
       IN  IF chk # "ok" THEN Fail(chk)
           ELSE \E env \in InitEnv :
           IF env = "nomem" \/ FreeBlocks = {} THEN Fail("ENOMEM")
           ELSE IF env = "nohandle" \/ FreeHandles = {} THEN Fail("ENOSPC")
           ELSE LET b == calloc
                    h == NewHandle
                    o == NewObjId
                IN    /\ obj' = [obj EXCEPT ![o] = NewObj(NoName, value)]
                      /\ htab' = [htab EXCEPT ![h] = [obj |-> o, acc |-> "all"]]
                      /\ heap' = [heap EXCEPT ![b] = [alloc |-> TRUE, handle |-> h]]
                      /\ slot' = [slot EXCEPT ![sem - SlotBase] = b]
                      /\ Return(Made(Call("init", t, sem, 0, "none", value,
                                          NoName, PsharedFlag(pshared), {}, b)))
                      /\ UNCHANGED pc

----------------------------------------------------------------------------
(* sem_destroy and sem_close *)

\* free(pv): freeing a block that is not allocated is a double free.
FreeErrors(pv) ==
    IF pv \in Blocks /\ heap[pv].alloc THEN {} ELSE {"double_free"}

\* *sem = NULL, executed after free(pv) with pv = (arch_sem_t *) sem: the
\* store goes to the first word of the storage that was just freed.
StoreErrors(sem) == IF sem \in Blocks THEN {"uaf_write"} ELSE {}

destroy_body(op, t, sem) ==
    /\ pc[t].at = "idle"
    /\ LET Fail(bad) ==
               /\ Return(Call(op, t, sem, set_errno, "EINVAL", 0, NoName,
                              {}, bad, NULL))
               /\ UNCHANGED <<slot, heap, htab, obj, pc>>
       IN  IF sem = NULL THEN Fail({})
           ELSE \E r \in ReadHandle(sem) :
                  IF ~ValidH(r[1]) THEN Fail(r[2])
                  ELSE /\ htab' = HtabClose(r[1])
                       /\ obj' = ObjClose(r[1])
                       /\ pc' = PcClose(r[1], pc)
                       /\ heap' = IF sem \in Blocks
                                  THEN [heap EXCEPT ![sem] = FreeBlock]
                                  ELSE heap
                       /\ slot' = IF sem \in SlotAddrs
                                  THEN [slot EXCEPT ![sem - SlotBase] = NULL]
                                  ELSE slot
                       /\ Return(Call(op, t, sem, 0, "none", 0, NoName, {},
                                      r[2] \cup FreeErrors(sem)
                                           \cup StoreErrors(sem), NULL))

sem_destroy(t, sem) == destroy_body("destroy", t, sem)

sem_close(t, sem) == destroy_body("close", t, sem)

----------------------------------------------------------------------------
(* sem_post *)

sem_post(t, sem) ==
    /\ pc[t].at = "idle"
    /\ LET Fail(bad) ==
               /\ Return(Call("post", t, sem, set_errno, "EINVAL", 0, NoName,
                              {}, bad, NULL))
               /\ UNCHANGED <<slot, heap, htab, obj, pc>>
       IN  IF sem = NULL THEN Fail({})
           ELSE \E r \in ReadHandle(sem) :
                  IF ~CanRelease(r[1]) THEN Fail(r[2])
                  ELSE /\ obj' = ObjPost(ObjOf(r[1]))
                       /\ Return(Call("post", t, sem, 0, "none", 0, NoName,
                                      {}, r[2], NULL))
                       /\ UNCHANGED <<slot, heap, htab, pc>>

----------------------------------------------------------------------------
(* sem_wait, sem_trywait, sem_timedwait *)

\* What each function returns for the native wait's result: <<ret, errno>>.
wait_result_inverted(rc) ==
    IF rc # "WAIT_OBJECT_0" THEN <<0, "none">> ELSE <<set_errno, "EPERM">>

wait_result(rc) ==
    IF rc = "WAIT_OBJECT_0" THEN <<0, "none">> ELSE <<set_errno, "EPERM">>

trywait_result_timeout_ok(rc) ==
    IF rc = "WAIT_OBJECT_0" \/ rc = "WAIT_TIMEOUT" THEN <<0, "none">>
    ELSE <<set_errno, "EPERM">>

trywait_result_never_ok(rc) ==
    IF rc = "WAIT_TIMEOUT" THEN <<set_errno, "ETIMEDOUT">>
    ELSE <<set_errno, "EPERM">>

trywait_result(rc) ==
    IF rc = "WAIT_OBJECT_0" THEN <<0, "none">>
    ELSE IF rc = "WAIT_TIMEOUT" THEN <<set_errno, "ETIMEDOUT">>
    ELSE <<set_errno, "EPERM">>

timedwait_result_timeout_ok(rc) ==
    IF rc = "WAIT_OBJECT_0" \/ rc = "WAIT_TIMEOUT" THEN <<0, "none">>
    ELSE <<set_errno, "EPERM">>

timedwait_result_timeout_eperm(rc) ==
    IF rc = "WAIT_OBJECT_0" THEN <<0, "none">> ELSE <<set_errno, "EPERM">>

timedwait_result(rc) ==
    IF rc = "WAIT_OBJECT_0" THEN <<0, "none">>
    ELSE IF rc = "WAIT_TIMEOUT" THEN <<set_errno, "ETIMEDOUT">>
    ELSE <<set_errno, "EPERM">>

\* A wait that returns without blocking: the native result rc decides.
Polled(op, t, sem, abs, h, bad, res) ==
    /\ obj' = IF WaitPoll(h) = "WAIT_OBJECT_0" THEN ObjTake(ObjOf(h)) ELSE obj
    /\ Return(Call(op, t, sem, res[1], res[2], abs, NoName, {}, bad, NULL))
    /\ UNCHANGED <<slot, heap, htab, pc>>

\* A wait that blocks: the thread sleeps on the object.
Sleeps(op, t, sem, abs, h, bad) ==
    /\ pc' = [pc EXCEPT ![t] = [Idle EXCEPT !.at = "blocked", !.op = op,
                                 !.sem = sem, !.o = ObjOf(h), !.arg = abs,
                                 !.bad = bad]]
    /\ Pending
    /\ UNCHANGED <<slot, heap, htab, obj>>

sem_wait(t, sem) ==
    /\ pc[t].at = "idle"
    /\ IF sem = NULL
       THEN /\ Return(Call("wait", t, sem, set_errno, "EINVAL", 0, NoName,
                           {}, {}, NULL))
            /\ UNCHANGED <<slot, heap, htab, obj, pc>>
       ELSE \E r \in ReadHandle(sem) :
              IF WaitPoll(r[1]) = "WAIT_TIMEOUT"
              THEN Sleeps("wait", t, sem, 0, r[1], r[2])
              ELSE Polled("wait", t, sem, 0, r[1], r[2],
                          wait_result(WaitPoll(r[1])))

sem_trywait(t, sem) ==
    /\ pc[t].at = "idle"
    /\ IF sem = NULL
       THEN /\ Return(Call("trywait", t, sem, set_errno, "EINVAL", 0, NoName,
                           {}, {}, NULL))
            /\ UNCHANGED <<slot, heap, htab, obj, pc>>
       ELSE \E r \in ReadHandle(sem) :
              Polled("trywait", t, sem, 0, r[1], r[2],
                     trywait_result(WaitPoll(r[1])))

sem_timedwait(t, sem, abs_timeout) ==
    /\ pc[t].at = "idle"
    /\ IF sem = NULL
       THEN /\ Return(Call("timedwait", t, sem, set_errno, "EINVAL",
                           abs_timeout, NoName, {}, {}, NULL))
            /\ UNCHANGED <<slot, heap, htab, obj, pc>>
       ELSE \E r \in ReadHandle(sem) :
              IF /\ WaitPoll(r[1]) = "WAIT_TIMEOUT"
                 /\ arch_rel_time_in_ms(abs_timeout) > 0
              THEN Sleeps("timedwait", t, sem, abs_timeout, r[1], r[2])
              ELSE Polled("timedwait", t, sem, abs_timeout, r[1], r[2],
                          timedwait_result(WaitPoll(r[1])))

\* A blocked wait is satisfied: the count is positive and the thread takes
\* one unit.
WaitWake(t) ==
    /\ pc[t].at = "blocked"
    /\ pc[t].o # 0
    /\ obj[pc[t].o].count > 0
    /\ obj' = ObjTake(pc[t].o)
    /\ pc' = [pc EXCEPT ![t] = Idle]
    /\ LET res == IF pc[t].op = "wait" THEN wait_result("WAIT_OBJECT_0")
                  ELSE timedwait_result("WAIT_OBJECT_0")
       IN  Return(Call(pc[t].op, t, pc[t].sem, res[1], res[2], pc[t].arg,
                       NoName, {}, pc[t].bad, NULL))
    /\ UNCHANGED <<slot, heap, htab>>

\* The interval of a blocked sem_timedwait elapses.
WaitTimeout(t) ==
    /\ pc[t].at = "blocked"
    /\ pc[t].op = "timedwait"
    /\ pc' = [pc EXCEPT ![t] = Idle]
    /\ LET res == timedwait_result("WAIT_TIMEOUT")
       IN  Return(Call("timedwait", t, pc[t].sem, res[1], res[2], pc[t].arg,
                       NoName, {}, pc[t].bad, NULL))
    /\ UNCHANGED <<slot, heap, htab, obj>>

----------------------------------------------------------------------------
(* sem_open, sem_unlink *)

\* int len: strlen(name), a size_t, converted to int by the assignment.
len(name) == ToInt(strlen(name))

\* The name OpenSemaphoreA and CreateSemaphore are given: buffer holds the
\* prefix and the first len characters of name.
buffer(name) == len(name)

open_argcheck_novalue(name, value) ==
    IF len(name) > BUFSZ - 8 \/ len(name) < 1 THEN "EINVAL" ELSE "ok"

open_argcheck(name, value) ==
    IF value > SEM_VALUE_MAX \/ len(name) > BUFSZ - 8 \/ len(name) < 1
    THEN "EINVAL" ELSE "ok"

\* The test applied to a name that was found.
open_excl_only(oflag) == "O_EXCL" \in oflag

open_excl(oflag) == "O_CREAT" \in oflag /\ "O_EXCL" \in oflag

\* The test applied to a name that was not found.
open_creat_anyflag(oflag) == oflag # {}

open_creat(oflag) == "O_CREAT" \in oflag

\* The access OpenSemaphoreA asks for.
OpenAccess == "modify"

\* The index of buffer that receives the terminator, the last one written:
\* the prefix fills 0..6 and the name 7..len + 6.
Terminator(name) == len(name) + 7

\* A write past the end of buffer.
BufferErrors(name) ==
    IF Terminator(name) > BUFSZ - 1 THEN {"overflow"} ELSE {}

\* OpenSemaphoreA(SEMAPHORE_MODIFY_STATE, FALSE, buffer): "opened", or the
\* code GetLastError reports.  The call can be refused whatever the state
\* is, and it fails when the handle table is full.
OpenSemaphoreA(name, env) ==
    IF env = "denied" THEN "ERROR_ACCESS_DENIED"
    ELSE IF Named(name) = {} THEN "ERROR_FILE_NOT_FOUND"
    ELSE IF FreeHandles = {} THEN "ERROR_NO_SYSTEM_RESOURCES"
    ELSE "opened"

\* The test applied to the code of a native open that failed.
open_lasterror_ignored(rc) == FALSE

open_lasterror(rc) ==
    rc # "ERROR_SEM_NOT_FOUND" /\ rc # "ERROR_FILE_NOT_FOUND"

\* First part of sem_open, up to and including everything that follows a
\* successful or failed OpenSemaphoreA other than the creation; env is what
\* the environment does to the call.
sem_open_env(t, name, oflag, value, env) ==
    /\ pc[t].at = "idle"
    /\ LET rc == OpenSemaphoreA(buffer(name), env)
           Fail(e, bad) ==
               /\ Return(Call("open", t, NULL, NULL, e, value, name, oflag,
                              bad, NULL))
               /\ UNCHANGED <<slot, heap, htab, obj, pc>>
       IN  IF open_argcheck(name, value) # "ok" THEN Fail("EINVAL", {})
           ELSE IF env = "nomem" \/ FreeBlocks = {} THEN Fail("ENOMEM", {})
           ELSE IF rc = "opened"
                THEN IF open_excl(oflag)
                     THEN Fail("EEXIST", BufferErrors(name))
                     ELSE LET b == calloc
                              h == NewHandle
                          IN
                            /\ htab' = [htab EXCEPT ![h] =
                                          [obj |-> CHOOSE o \in
                                                     Named(buffer(name)) : TRUE,
                                           acc |-> OpenAccess]]
                            /\ heap' = [heap EXCEPT ![b] =
                                          [alloc |-> TRUE, handle |-> h]]
                            /\ Return(Call("open", t, NULL, b, "none", value,
                                           name, oflag, BufferErrors(name), b))
                            /\ UNCHANGED <<slot, obj, pc>>
           ELSE IF open_lasterror(rc) THEN Fail("EPERM", BufferErrors(name))
           ELSE IF ~open_creat(oflag) THEN Fail("ENOENT", BufferErrors(name))
           ELSE LET b == calloc IN
                  /\ heap' = [heap EXCEPT ![b] =
                                [alloc |-> TRUE, handle |-> NULL]]
                  /\ pc' = [pc EXCEPT ![t] =
                              [Idle EXCEPT !.at = "create", !.op = "open",
                                           !.sem = b, !.arg = value,
                                           !.name = name, !.flg = oflag,
                                           !.bad = BufferErrors(name)]]
                  /\ Pending
                  /\ UNCHANGED <<slot, htab, obj>>

sem_open(t, name, oflag, value) ==
    \E env \in OpenEnv : sem_open_env(t, name, oflag, value, env)

\* Second part of sem_open: CreateSemaphore under the name.  When an object
\* of that name exists by now, the native call returns a handle to it and
\* ignores the value.
sem_open_create(t) ==
    /\ pc[t].at = "create"
    /\ pc' = [pc EXCEPT ![t] = Idle]
    /\ LET b == pc[t].sem
           name == buffer(pc[t].name)
       IN  \E env \in CreateEnv :
           IF env = "nohandle" \/ FreeHandles = {}
           THEN /\ heap' = [heap EXCEPT ![b] = FreeBlock]
                /\ Return(Call("open", t, NULL, NULL, "ENOSPC", pc[t].arg,
                               pc[t].name, pc[t].flg, pc[t].bad, NULL))
                /\ UNCHANGED <<slot, htab, obj>>
           ELSE LET h == NewHandle
                    o == IF Named(name) # {}
                         THEN CHOOSE x \in Named(name) : TRUE
                         ELSE NewObjId
                IN    /\ obj' = IF Named(name) # {} THEN obj
                                ELSE [obj EXCEPT ![o] = NewObj(name, pc[t].arg)]
                      /\ htab' = [htab EXCEPT ![h] = [obj |-> o, acc |-> "all"]]
                      /\ heap' = [heap EXCEPT ![b].handle = h]
                      /\ Return(LET rec == Call("open", t, NULL, b, "none",
                                                 pc[t].arg, pc[t].name,
                                                 pc[t].flg, pc[t].bad, b)
                                 IN  IF Named(name) # {} THEN rec
                                     ELSE Made(rec))
                      /\ UNCHANGED slot

\* An unlink that takes the name away from the object that bears it.
sem_unlink_removes(t, name) ==
    /\ pc[t].at = "idle"
    /\ obj' = [o \in Objs |-> IF obj[o].live /\ obj[o].name = name
                              THEN [obj[o] EXCEPT !.name = NoName]
                              ELSE obj[o]]
    /\ Return(Call("unlink", t, NULL, 0, "none", 0, name, {}, {}, NULL))
    /\ UNCHANGED <<slot, heap, htab, pc>>

sem_unlink(t, name) ==
    /\ pc[t].at = "idle"
    /\ Return(Call("unlink", t, NULL, 0, "none", 0, name, {}, {}, NULL))
    /\ UNCHANGED <<slot, heap, htab, obj, pc>>

----------------------------------------------------------------------------
(* Observers.  They record what the calls returned and change nothing. *)

Completed == last' # NoCall

TrailOps == {"post", "wait", "trywait"}

\* The trail starts at a call that created a semaphore object and follows
\* the calls made through the pointer that call produced; any other call,
\* and a call that does not return, ends it.
TrailNext(rec) ==
    IF rec.made THEN <<rec>>
    ELSE IF /\ trail # <<>>
            /\ Len(trail) <= MaxTrail
            /\ rec.op \in TrailOps
            /\ rec.sem = trail[1].out
         THEN Append(trail, rec)
         ELSE <<>>

\* A call through that pointer that blocks is recorded as such.
TrailPending ==
    IF /\ trail # <<>>
       /\ Len(trail) <= MaxTrail
       /\ \E t \in Threads : /\ pc[t].at = "idle"
                              /\ pc'[t].at = "blocked"
                              /\ pc'[t].op \in TrailOps
                              /\ pc'[t].sem = trail[1].out
    THEN Append(trail, Call("wait", 0, trail[1].out, 0, "blocked", 0,
                            NoName, {}, {}, NULL))
    ELSE <<>>

Trailing == trail' = IF Completed THEN TrailNext(last') ELSE TrailPending

TallyNext(rec) ==
    IF rec.ret # 0 THEN tally
    ELSE IF rec.op = "post" THEN [tally EXCEPT !.posts = @ + 1]
    ELSE IF rec.op \in {"wait", "trywait", "timedwait"}
         THEN [tally EXCEPT !.waits = @ + 1]
    ELSE tally

Tallying == tally' = IF Completed THEN TallyNext(last') ELSE tally

----------------------------------------------------------------------------
(* The sequential specification: one thread calls any function with any   *)
(* argument, one call after the other.                                     *)

Caller == 1

\* The arguments tried: every combination for a usable pointer or name,
\* one combination for a null pointer and for a name of a rejected length.
InitArgs ==
    {a \in ({NULL} \cup SlotAddrs)
           \X {PTHREAD_PROCESS_PRIVATE, PTHREAD_PROCESS_SHARED} \X Values :
        a[1] # NULL \/ (a[2] = PTHREAD_PROCESS_PRIVATE /\ a[3] = 0)}

OpenArgs ==
    {a \in Names \X OFlags \X Values :
        \/ (strlen(a[1]) >= 1 /\ strlen(a[1]) <= BUFSZ - 8)
        \/ (a[2] = {"O_CREAT"} /\ a[3] = 0)}

SeqObs == Trailing /\ UNCHANGED <<tally, script>>

Next ==
    \/ \E a \in InitArgs : sem_init(Caller, a[1], a[2], a[3]) /\ SeqObs
    \/ \E sem \in Pointers : sem_destroy(Caller, sem) /\ SeqObs
    \/ \E sem \in Pointers : sem_post(Caller, sem) /\ SeqObs
    \/ \E sem \in Pointers : sem_wait(Caller, sem) /\ SeqObs
    \/ \E sem \in Pointers : sem_trywait(Caller, sem) /\ SeqObs
    \/ \E sem \in Pointers, abs \in Deadlines :
          sem_timedwait(Caller, sem, abs) /\ SeqObs
    \/ WaitTimeout(Caller) /\ SeqObs
    \/ \E a \in OpenArgs : sem_open(Caller, a[1], a[2], a[3]) /\ SeqObs
    \/ sem_open_create(Caller) /\ SeqObs
    \/ \E sem \in Pointers : sem_close(Caller, sem) /\ SeqObs
    \/ \E name \in Names : sem_unlink(Caller, name) /\ SeqObs

Spec == Init /\ [][Next]_vars

----------------------------------------------------------------------------
(* The concurrent specifications start from the state a successful         *)
(* sem_init(&s, PTHREAD_PROCESS_PRIVATE, v) leaves: the variable s holds   *)
(* block Sem1, whose handle refers to an unnamed object of count v.  The   *)
(* threads then work on that one semaphore.                                *)

Sem1 == 1

AfterInit(v) ==
    /\ slot = [s \in Slots |-> Sem1]
    /\ heap = [b \in Blocks |->
                 IF b = Sem1 THEN [alloc |-> TRUE, handle |-> 1] ELSE FreeBlock]
    /\ htab = [h \in Handles |->
                 IF h = 1 THEN [obj |-> 1, acc |-> "all"] ELSE ClosedEntry]
    /\ obj = [o \in Objs |-> IF o = 1 THEN NewObj(NoName, v) ELSE DeadObj]
    /\ pc = [t \in Threads |-> Idle]
    /\ last = NoCall
    /\ trail = <<>>
    /\ tally = [NoTally EXCEPT !.init = v]
    /\ script = [t \in Threads |-> NoScript]

\* Per thread: the calls it has begun and those that returned success.
Began(t) ==
    /\ pc[t].at = "idle"
    /\ \/ pc'[t].at # "idle"
       \/ Completed /\ last'.thr = t

Scripting ==
    script' = [t \in Threads |->
                 [calls |-> script[t].calls + (IF Began(t) THEN 1 ELSE 0),
                  ok |-> script[t].ok +
                         (IF Completed /\ last'.thr = t /\ ~Failed(last')
                          THEN 1 ELSE 0)]]

ConcPointers == {Sem1} \cup SlotAddrs

InitConc == \E v \in 0..SEM_VALUE_MAX : AfterInit(v)

ConcObs == Tallying /\ UNCHANGED <<trail, script>>

NextConc ==
    \E t \in Threads :
        \/ \E sem \in ConcPointers :
              tally.posts < MaxPosts /\ sem_post(t, sem) /\ ConcObs
        \/ \E sem \in ConcPointers : sem_wait(t, sem) /\ ConcObs
        \/ \E sem \in ConcPointers : sem_trywait(t, sem) /\ ConcObs
        \/ \E sem \in ConcPointers, abs \in Deadlines :
              sem_timedwait(t, sem, abs) /\ ConcObs
        \/ WaitWake(t) /\ ConcObs
        \/ WaitTimeout(t) /\ ConcObs

SpecConc == InitConc /\ [][NextConc]_vars

----------------------------------------------------------------------------
(* The scenario of MaxWaiters threads that each call sem_wait once on a    *)
(* semaphore initialised to 0 while one more thread calls sem_post         *)
(* MaxWaiters times.  Every thread is scheduled again and again.           *)

Waiters == 1..MaxWaiters
Poster == MaxWaiters + 1

InitLive == AfterInit(0)

LiveWait(t) ==
    script[t].calls = 0 /\ sem_wait(t, Sem1) /\ Tallying /\ Scripting
        /\ UNCHANGED trail

LiveWake(t) == WaitWake(t) /\ Tallying /\ Scripting /\ UNCHANGED trail

LivePost ==
    script[Poster].calls < MaxWaiters /\ sem_post(Poster, Sem1)
        /\ Tallying /\ Scripting /\ UNCHANGED trail

NextLive ==
    \/ \E t \in Waiters : LiveWait(t)
    \/ \E t \in Waiters : LiveWake(t)
    \/ LivePost

SpecLive ==
    /\ InitLive
    /\ [][NextLive]_vars
    /\ \A t \in Waiters : WF_vars(LiveWait(t)) /\ WF_vars(LiveWake(t))
    /\ WF_vars(LivePost)

----------------------------------------------------------------------------
(* Properties of the sequential specification. *)

\* The count of the semaphore the trail follows.
TrailCount == CountOf(heap[trail[1].out].handle)

\* C1: after a successful sem_init(&s, PTHREAD_PROCESS_PRIVATE, v), a
\* sem_trywait called next, on the pointer sem_init stored in s, returns 0
\* exactly when v > 0 and then leaves the count at v - 1; when v = 0 it
\* returns -1 with ETIMEDOUT and the count is still 0.
C1_InitThenTryWait ==
    (Len(trail) >= 2 /\ trail[1].op = "init" /\ trail[2].op = "trywait") =>
        /\ trail[2].ret = 0 <=> trail[1].arg > 0
        /\ trail[1].arg = 0 =>
              trail[2].ret = set_errno /\ trail[2].err = "ETIMEDOUT"
        /\ Len(trail) = 2 =>
              TrailCount = IF trail[1].arg > 0 THEN trail[1].arg - 1 ELSE 0

C1_Witness ==
    /\ Len(trail) = 2
    /\ trail[1].op = "init" /\ trail[1].arg = SEM_VALUE_MAX
    /\ trail[2].op = "trywait" /\ trail[2].ret = 0

\* C2: on a semaphore just created with count 0, by sem_init or by sem_open
\* with O_CREAT on a name that did not exist, sem_post and then sem_wait
\* through the created pointer both return 0 and leave the count at 0, and
\* a sem_trywait after them returns -1 with ETIMEDOUT.
C2_RoundTrip ==
    (Len(trail) >= 2 /\ trail[1].arg = 0 /\ trail[2].op = "post") =>
        /\ trail[2].ret = 0
        /\ (Len(trail) >= 3 /\ trail[3].op = "wait") =>
              /\ trail[3].ret = 0 /\ trail[3].err = "none"
              /\ Len(trail) = 3 => TrailCount = 0
              /\ (Len(trail) >= 4 /\ trail[4].op = "trywait") =>
                    /\ trail[4].ret = set_errno
                    /\ trail[4].err = "ETIMEDOUT"
                    /\ Len(trail) = 4 => TrailCount = 0

C2_Witness ==
    /\ Len(trail) = 4
    /\ trail[1].op = "open" /\ trail[1].arg = 0
    /\ trail[2].op = "post" /\ trail[3].op = "wait"
    /\ trail[4].op = "trywait" /\ trail[4].err = "ETIMEDOUT"

\* The blocks that are allocated, and the block a sem_open under way holds.
Allocated == {b \in Blocks : heap[b].alloc}
InFlight == {pc[t].sem : t \in {u \in Threads : pc[u].at = "create"}}

ValidName(name) == strlen(name) >= 1 /\ strlen(name) <= BUFSZ - 8
BothFlags == {"O_CREAT", "O_EXCL"}

\* The step is a whole call: it began and returned in this step.
WholeCall(op) == last'.op = op /\ pc[last'.thr].at = "idle"

\* C5: a sem_open of a name whose object exists, once the native open has
\* found the object (valid arguments, storage allocated, access granted),
\* fails with EEXIST exactly when the flags hold both O_CREAT and O_EXCL;
\* it then returns no pointer and leaves the heap, the handle table and
\* the objects as they were.  With any other flags it returns a pointer to
\* a block whose handle refers to the existing object, whose count and
\* other handles are unchanged.
C5_ExclusiveCreate ==
    [][ (WholeCall("open") /\ Named(last'.name) # {}) =>
          /\ last'.err = "EEXIST" => BothFlags \subseteq last'.flg
          /\ last'.err \notin {"EINVAL", "ENOMEM", "EPERM"} =>
               IF BothFlags \subseteq last'.flg
               THEN /\ last'.err = "EEXIST" /\ last'.ret = NULL
                    /\ UNCHANGED <<slot, heap, htab, obj>>
               ELSE /\ last'.err = "none" /\ last'.ret \in Blocks
                    /\ heap'[last'.ret].alloc
                    /\ htab'[heap'[last'.ret].handle].obj \in Named(last'.name)
                    /\ obj' = obj
                    /\ \A h \in Handles : htab[h].obj # 0 => htab'[h] = htab[h]
      ]_vars

C5_Witness ==
    /\ last.op = "open" /\ last.err = "EEXIST"
    /\ Named(last.name) # {}

\* C6: a sem_open without O_CREAT, with a valid name and value, of a name
\* no object has, fails with ENOENT once storage was allocated and the
\* native open reported the name as not found: it returns no pointer,
\* creates no object, opens no handle and leaves no block allocated that
\* was not allocated before the call.
C6_OpenAbsent ==
    [][ ( /\ last'.op = "open"
          /\ ValidName(last'.name) /\ last'.arg <= SEM_VALUE_MAX
          /\ "O_CREAT" \notin last'.flg
          /\ Named(last'.name) = {}
          /\ last'.err \notin {"ENOMEM", "EPERM"} ) =>
          /\ last'.err = "ENOENT" /\ last'.ret = NULL
          /\ obj' = obj /\ htab' = htab /\ slot' = slot
          /\ {b \in Blocks : heap'[b].alloc} = Allocated \ InFlight
      ]_vars

C6_Witness ==
    /\ last.op = "open" /\ last.err = "ENOENT"
    /\ Named(last.name) = {} /\ Allocated = {}

\* C7: two pointers opened on one name share one object: opening the name
\* a second time leaves the count as it was, and through every open
\* pointer of a named semaphore whose count is positive sem_wait,
\* sem_trywait and sem_timedwait return 0.
C7_SharedObject ==
    [][ /\ (WholeCall("open") /\ Named(last'.name) # {}) => obj' = obj
        /\ ( /\ last'.op \in {"wait", "trywait", "timedwait"}
             /\ pc[last'.thr].at = "idle"
             /\ last'.sem \in Allocated
             /\ ValidH(heap[last'.sem].handle)
             /\ obj[ObjOf(heap[last'.sem].handle)].name # NoName
             /\ CountOf(heap[last'.sem].handle) > 0 ) => last'.ret = 0
      ]_vars

\* C8: sem_init with a value above SEM_VALUE_MAX fails with EINVAL
\* whatever pshared is; with a value in range and pshared other than
\* PTHREAD_PROCESS_PRIVATE it fails with EPERM; and a sem_init that fails
\* leaves the heap, the handle table, the objects and the caller's
\* variable as they were.
C8_InitRejects ==
    [][ last'.op = "init" =>
          /\ last'.arg > SEM_VALUE_MAX =>
                last'.ret = set_errno /\ last'.err = "EINVAL"
          /\ ( /\ last'.sem # NULL /\ last'.arg <= SEM_VALUE_MAX
               /\ last'.flg = {"pshared"} ) =>
                last'.ret = set_errno /\ last'.err = "EPERM"
          /\ last'.ret # 0 => UNCHANGED <<slot, heap, htab, obj>>
      ]_vars

C8_Witness ==
    /\ last.op = "init" /\ last.arg > SEM_VALUE_MAX
    /\ last.flg = {"pshared"} /\ last.err = "EINVAL"
    /\ Allocated # {}

\* What sem_trywait does in the current state when called with sem: the
\* results <<ret, errno, memory errors, objects afterwards>> it can have.
TryWaitOutcomes(sem) ==
    IF sem = NULL THEN {<<set_errno, "EINVAL", {}, obj>>}
    ELSE {<<trywait_result(WaitPoll(r[1]))[1],
            trywait_result(WaitPoll(r[1]))[2],
            r[2],
            IF WaitPoll(r[1]) = "WAIT_OBJECT_0"
            THEN ObjTake(ObjOf(r[1])) ELSE obj>> : r \in ReadHandle(sem)}

\* C9: sem_timedwait with a deadline that has passed does what sem_trywait
\* does in the same state: the same return value and errno, the same
\* effect on the count, and the thread is never left blocked.
C9_PastDeadlineIsTryWait ==
    [][ /\ (last'.op = "timedwait" /\ last'.arg < Now) =>
              /\ pc[last'.thr].at = "idle"
              /\ <<last'.ret, last'.err, last'.bad, obj'>>
                    \in TryWaitOutcomes(last'.sem)
        /\ \A t \in Threads :
              (pc'[t].at = "blocked" /\ pc'[t].op = "timedwait") =>
                  pc'[t].arg > Now
      ]_vars

C9_Witness ==
    /\ last.op = "timedwait" /\ last.arg < Now
    /\ last.err = "ETIMEDOUT"
    /\ last.sem \in Allocated /\ CountOf(heap[last.sem].handle) = 0

\* C10: a sem_destroy or sem_close of a pointer that the call before it
\* destroyed successfully fails with EINVAL, closes no handle, frees no
\* block and touches no freed storage.
C10_DoubleDestroy ==
    [][ ( /\ last.op \in {"destroy", "close"} /\ last.ret = 0
          /\ last'.op \in {"destroy", "close"} /\ last'.sem = last.sem ) =>
          /\ last'.ret = set_errno /\ last'.err = "EINVAL"
          /\ last'.bad = {}
          /\ htab' = htab /\ heap' = heap
      ]_vars

----------------------------------------------------------------------------
(* Properties of the concurrent specifications. *)

AllDone ==
    /\ \A w \in Waiters : script[w].calls = 1 /\ script[w].ok = 1
    /\ script[Poster].calls = MaxWaiters /\ script[Poster].ok = MaxWaiters
    /\ \A t \in Threads : pc[t].at = "idle"
    /\ CountOf(heap[Sem1].handle) = 0

\* C3: when MaxWaiters threads each call sem_wait once on a semaphore
\* initialised to 0 and another thread calls sem_post MaxWaiters times,
\* then under fair scheduling every sem_wait returns 0, once, every
\* sem_post returns 0, and the count ends at 0 and stays there.
C3_AllWaitersWake == <>[]AllDone

C3_Witness == AllDone /\ tally.waits = MaxWaiters /\ tally.posts = MaxWaiters

\* C4: in every state reached by threads calling sem_post, sem_wait,
\* sem_trywait and sem_timedwait on one semaphore, the waits that returned
\* 0 are at most the initial value plus the posts that returned 0, and the
\* count is the initial value plus those posts minus those waits.
C4_NoDoubleDelivery ==
    /\ tally.waits <= tally.init + tally.posts
    /\ CountOf(heap[Sem1].handle) = tally.init + tally.posts - tally.waits

C4_Witness ==
    /\ tally.init = 0 /\ tally.posts = MaxPosts /\ tally.waits = MaxPosts
    /\ \E t \in Threads : pc[t].at = "blocked" /\ pc[t].op = "wait"

----------------------------------------------------------------------------
(* Destruction. *)

\* C11: a sem_destroy or sem_close of a pointer to a live block whose
\* handle is open (what a successful sem_init stored or sem_open returned)
\* returns 0, closes exactly that block's handle, frees exactly that block,
\* and leaves NULL in every variable of the caller that held the pointer.
C11_DestroyOnce ==
    [][ ( /\ last'.op \in {"destroy", "close"}
          /\ last'.sem \in Allocated \ InFlight
          /\ ValidH(heap[last'.sem].handle) ) =>
          /\ last'.ret = 0
          /\ htab' = HtabClose(heap[last'.sem].handle)
          /\ {b \in Blocks : heap'[b].alloc} = Allocated \ {last'.sem}
          /\ \A s \in Slots : slot[s] = last'.sem => slot'[s] = NULL
      ]_vars

----------------------------------------------------------------------------
(* Frame conditions and the range of the count. *)

\* C12: sem_unlink returns 0 for every name, whether an object bears the
\* name or not, and changes nothing: the variables, the blocks, the
\* handles, the objects with their names and counts, and the threads are
\* as before.  A sem_open without O_CREAT that follows it, of a name an
\* object still bears, returns a pointer to a block whose handle refers to
\* that object, given a value in range and unless storage or the native
\* open fails.
C12_UnlinkNoOp ==
    [][ /\ last'.op = "unlink" =>
              /\ last'.ret = 0 /\ last'.err = "none"
              /\ UNCHANGED <<slot, heap, htab, obj, pc>>
        /\ ( /\ last.op = "unlink"
             /\ WholeCall("open") /\ last'.name = last.name
             /\ ValidName(last'.name) /\ last'.arg <= SEM_VALUE_MAX
             /\ "O_CREAT" \notin last'.flg
             /\ Named(last'.name) # {}
             /\ last'.err \notin {"ENOMEM", "EPERM"} ) =>
              /\ last'.ret \in Blocks
              /\ htab'[heap'[last'.ret].handle].obj \in Named(last'.name)
      ]_vars

C12_Witness ==
    /\ last.op = "unlink" /\ last.ret = 0
    /\ Named(last.name) # {}
    /\ \E b \in Allocated : ValidH(heap[b].handle)
                               /\ ObjOf(heap[b].handle) \in Named(last.name)

\* C13: the count of every object is in 0..SEM_VALUE_MAX after every step;
\* sem_init and sem_open with a value above SEM_VALUE_MAX fail with EINVAL
\* and create nothing; sem_post through a pointer whose object's count is
\* SEM_VALUE_MAX fails with EINVAL and the count stays SEM_VALUE_MAX.
C13_CountInRange ==
    [][ /\ \A o \in Objs :
              obj'[o].live => obj'[o].count \in 0..SEM_VALUE_MAX
        /\ (last'.op \in {"init", "open"} /\ last'.arg > SEM_VALUE_MAX) =>
              /\ last'.err = "EINVAL"
              /\ last'.ret = IF last'.op = "init" THEN set_errno ELSE NULL
              /\ obj' = obj
        /\ ( /\ last'.op = "post"
             /\ last'.sem \in Allocated
             /\ ValidH(heap[last'.sem].handle)
             /\ CountOf(heap[last'.sem].handle) = SEM_VALUE_MAX ) =>
              /\ last'.ret = set_errno /\ last'.err = "EINVAL"
              /\ obj' = obj
      ]_vars

C13_Witness ==
    /\ last.op = "post" /\ last.ret = set_errno /\ last.err = "EINVAL"
    /\ last.sem \in Allocated
    /\ ValidH(heap[last.sem].handle)
    /\ CountOf(heap[last.sem].handle) = SEM_VALUE_MAX

\* C14: a call that returns its failure value, with whatever errno, leaves
\* every object and its count as before, and so does a step that begins a
\* call without completing it; a sem_post that returns 0 has raised the
\* count of one object by exactly 1 and a sem_wait, sem_trywait or
\* sem_timedwait that returns 0 has lowered the count of one object by
\* exactly 1, with every other object unchanged.
C14_NoMutationOnFailure ==
    [][ /\ Failed(last') => obj' = obj
        /\ last' = NoCall => obj' = obj
        /\ (last'.op = "post" /\ last'.ret = 0) =>
              \E o \in Objs : obj[o].live /\ obj' = ObjPost(o)
        /\ (last'.op \in {"wait", "trywait", "timedwait"} /\ last'.ret = 0) =>
              \E o \in Objs : obj[o].live /\ obj' = ObjTake(o)
      ]_vars

C14_Witness ==
    /\ last.op = "trywait" /\ last.ret = set_errno /\ last.err = "EPERM"
    /\ last.sem \in Allocated
    /\ ValidH(heap[last.sem].handle)
    /\ CountOf(heap[last.sem].handle) > 0

----------------------------------------------------------------------------
(* The named-semaphore scenario: one thread makes up to MaxCalls calls of  *)
(* sem_open, sem_close and sem_post, and the calls it began and those that *)
(* succeeded are counted.                                                  *)

NamedObs == Scripting /\ UNCHANGED <<trail, tally>>

MoreCalls == script[Caller].calls < MaxCalls

NextNamed ==
    \/ \E a \in OpenArgs :
          MoreCalls /\ sem_open(Caller, a[1], a[2], a[3]) /\ NamedObs
    \/ sem_open_create(Caller) /\ NamedObs
    \/ \E sem \in Pointers : MoreCalls /\ sem_close(Caller, sem) /\ NamedObs
    \/ \E sem \in Pointers : MoreCalls /\ sem_post(Caller, sem) /\ NamedObs

SpecNamed == Init /\ [][NextNamed]_vars

\* The open handles of the object that bears a name.
Refs(name) ==
    {h \in Handles : htab[h].obj # 0 /\ obj[htab[h].obj].name = name}

\* C15: an object exists exactly while a handle refers to it.  When no
\* handle refers to an object of a valid name (none was opened, or every
\* one was closed), a sem_open of that name that is not stopped by a
\* failed allocation or a native failure returns NULL with ENOENT if
\* O_CREAT is not set, and with O_CREAT and O_EXCL set it creates an
\* object and returns a pointer to a block whose handle refers to it, the
\* count being the value passed.
C15_RefCountedLifetime ==
    [][ /\ \A o \in Objs :
              obj'[o].live <=> \E h \in Handles : htab'[h].obj = o
        /\ ( /\ last'.op = "open"
             /\ ValidName(last'.name) /\ last'.arg <= SEM_VALUE_MAX
             /\ Refs(last'.name) = {}
             /\ last'.err \notin {"ENOMEM", "EPERM", "ENOSPC"} ) =>
              /\ "O_CREAT" \notin last'.flg =>
                    last'.ret = NULL /\ last'.err = "ENOENT"
              /\ BothFlags \subseteq last'.flg =>
                    /\ last'.ret \in Blocks /\ last'.made
                    /\ htab'[heap'[last'.ret].handle].obj # 0
                    /\ obj'[htab'[heap'[last'.ret].handle].obj]
                          = NewObj(last'.name, last'.arg)
      ]_vars

\* Four calls, all successful, the last one an exclusive creation with
\* value 0: the calls before it created the name, posted and closed.
C15_Witness ==
    /\ script[Caller].calls = 4 /\ script[Caller].ok = 4
    /\ last.op = "open" /\ last.made /\ last.flg = BothFlags
    /\ last.arg = 0 /\ CountOf(heap[last.ret].handle) = 0

----------------------------------------------------------------------------
(* Failures of the native open. *)

\* C16: when OpenSemaphoreA is refused (it fails with a code other than
\* not-found), a sem_open with a valid name and value that obtained its
\* storage returns NULL with EPERM whatever the flags are: the step is the
\* whole call, so no creation is attempted, no handle is opened, no object
\* is made and no block stays allocated.
C16_NativeOpenDenied ==
    [][ \A t \in Threads :
          LET began == pc[t].at = "idle" /\ pc'[t].at = "create"
              c == IF began THEN pc'[t] ELSE last'
          IN  ( /\ began \/ (last'.op = "open" /\ last'.thr = t)
                /\ ValidName(c.name) /\ c.arg <= SEM_VALUE_MAX
                /\ FreeBlocks # {}
                /\ sem_open_env(t, c.name, c.flg, c.arg, "denied") ) =>
                /\ last'.op = "open" /\ last'.thr = t
                /\ last'.ret = NULL /\ last'.err = "EPERM"
                /\ UNCHANGED <<slot, heap, htab, obj, pc>>
      ]_vars

C16_Witness ==
    /\ last.op = "open" /\ last.ret = NULL /\ last.err = "EPERM"
    /\ "O_CREAT" \in last.flg
    /\ Named(last.name) = {}
    /\ FreeBlocks # {} /\ FreeHandles # {}

----------------------------------------------------------------------------
(* The name-length guard: sem_open is called without flags with names of   *)
(* every length from 0 to MaxNameLen and of lengths beyond INT_MAX.        *)

\* Every length up to MaxNameLen, the lengths around INT_MAX, and the
\* lengths that differ from 0, 1, BUFSZ - 8 and BUFSZ - 7 by the modulus of
\* the conversion to int.
GuardNames ==
    (0..MaxNameLen) \cup {INT_MAX, INT_MAX + 1}
        \cup {2 * (INT_MAX + 1) + n : n \in {0, 1, BUFSZ - 8, BUFSZ - 7}}

NextGuard == \E name \in GuardNames : sem_open(Caller, name, {}, 0) /\ SeqObs

SpecGuard == Init /\ [][NextGuard]_vars

\* C17: sem_open with a name of length 0 or of length above BUFSZ - 8
\* returns NULL with EINVAL and leaves blocks, handles, objects and threads
\* untouched; every call that gets past the check has a name of length 1
\* to BUFSZ - 8, the terminator it writes lands at an index of at most
\* BUFSZ - 1, and it writes nothing outside buffer.
C17_NameLengthGuard ==
    [][ last'.op = "open" =>
          /\ (strlen(last'.name) < 1 \/ strlen(last'.name) > BUFSZ - 8) =>
                /\ last'.ret = NULL /\ last'.err = "EINVAL"
                /\ UNCHANGED <<slot, heap, htab, obj, pc>>
          /\ last'.err # "EINVAL" =>
                /\ strlen(last'.name) \in 1..(BUFSZ - 8)
                /\ Terminator(last'.name) <= BUFSZ - 1
                /\ last'.bad = {}
      ]_vars

----------------------------------------------------------------------------
(* Exclusive creation by several threads: each thread calls                *)
(* sem_open(name, O_CREAT | O_EXCL, mode, v) once, all with the same name, *)
(* which no object bears at the start.                                     *)

SharedName == 1

ExclObs == Scripting /\ UNCHANGED <<trail, tally>>

ExclOpen(t) ==
    /\ script[t].calls = 0
    /\ \E v \in 0..SEM_VALUE_MAX : sem_open(t, SharedName, BothFlags, v)
    /\ ExclObs

ExclCreate(t) == sem_open_create(t) /\ ExclObs

NextExcl ==
    \/ \E t \in Threads : ExclOpen(t)
    \/ \E t \in Threads : ExclCreate(t)

SpecExcl == Init /\ [][NextExcl]_vars

\* C18: of the concurrent exclusive creations of one name at most one
\* returns a pointer; a call that fails, unless for lack of storage or a
\* native failure, fails with EEXIST; and the count of the object is the
\* value passed by the call that returned a pointer.
C18_ExclusiveUnderConcurrency ==
    /\ Cardinality({t \in Threads : script[t].ok > 0}) <= 1
    /\ ( /\ last.op = "open" /\ Failed(last)
         /\ last.err \notin {"ENOMEM", "EPERM", "ENOSPC"} ) =>
            last.err = "EEXIST"
    /\ (last.op = "open" /\ ~Failed(last)) =>
            CountOf(heap[last.ret].handle) = last.arg

----------------------------------------------------------------------------
(* Storage and references. *)

\* The blocks a returned pointer refers to, and the handles that are open.
Held == Allocated \ InFlight
OpenHandles == {h \in Handles : htab[h].obj # 0}

\* The allocated blocks and the open handles are in one-to-one
\* correspondence: each block holds an open handle of its own and no other
\* handle is open.
Balanced ==
    /\ \A b \in Held : ValidH(heap[b].handle)
    /\ \A b, c \in Held : heap[b].handle = heap[c].handle => b = c
    /\ Cardinality(Held) = Cardinality(OpenHandles)

\* The pointers a caller has got from the program: NULL, the address of a
\* variable, a pointer sem_open returned or sem_init stored that has not
\* been destroyed, and whatever a variable still holds.
Known(p) ==
    \/ p = NULL
    \/ p \in SlotAddrs
    \/ p \in Held
    \/ \E s \in Slots : slot[s] = p

\* C19: every call of sem_init, sem_open, sem_destroy and sem_close (and
\* of the other functions), successful or failing, made with a pointer the
\* caller has got from the program keeps the allocated blocks and the open
\* handles in one-to-one correspondence, and a sem_init or sem_open that
\* fails leaves the allocated blocks and the open handles as they were
\* before the call.
C19_NoLeak ==
    [][ (last' # NoCall /\ Known(last'.sem) /\ Balanced) =>
          /\ Balanced'
          /\ (last'.op \in {"init", "open"} /\ Failed(last')) =>
                /\ Held' = Held
                /\ OpenHandles' = OpenHandles
      ]_vars

\* C20: a sem_destroy or sem_close of a pointer to a live block whose
\* handle is open, from sem_init or from sem_open, neither reads nor writes
\* a block that has been freed.
C20_NoUseAfterFree ==
    [][ ( /\ last'.op \in {"destroy", "close"}
          /\ last'.sem \in Held
          /\ ValidH(heap[last'.sem].handle) ) =>
          last'.bad \cap {"uaf_read", "uaf_write", "double_free"} = {}
      ]_vars

=============================================================================
